---- MODULE Spec2Model ----
(***************************************************************************)
(* Model of the minimp3 Rust wrapper (src/src/lib.rs, src/src/error.rs).   *)
(*                                                                         *)
(* Two decoders are modelled:                                              *)
(*   - Decoder      (lib.rs 34-209): ring buffer + refill/decode loop of   *)
(*                  next_frame; specifications Spec and FairSpec.          *)
(*   - SeekDecoder  (lib.rs 246-389): thin wrapper over the codec's        *)
(*                  extended context; specification SeekSpec.              *)
(*                                                                         *)
(* The frame codec (the C library behind minimp3_sys) is not part of the   *)
(* Rust sources.  It is modelled from its description in the design        *)
(* document: a stream is a sequence of filler bytes and frames of          *)
(* FrameLen bytes; mp3dec_decode_frame skips filler, decodes a complete    *)
(* frame at the head of the buffer, and reports (0, 0) for an incomplete   *)
(* one.                                                                    *)
(***************************************************************************)
EXTENDS Integers, Sequences, FiniteSets, TLC

(***************************************************************************)
(* Bounds of the model.                                                    *)
(***************************************************************************)
\* Length of the longest source stream (bytes).
MaxSrcLen == 10
\* Bytes of one compressed frame in the modelled streams.
FrameLen == 2
\* Scale of the codec's MINIMP3_MAX_SAMPLES_PER_FRAME (2304 in the C header):
\* every buffer size of lib.rs is a multiple of it, the model counts in
\* units of FrameScale bytes.
FrameScale == 1

(***************************************************************************)
(* Constants of lib.rs.                                                    *)
(***************************************************************************)
MAX_SAMPLES_PER_FRAME == FrameScale
BUFFER_SIZE == MAX_SAMPLES_PER_FRAME * 15
REFILL_TRIGGER == MAX_SAMPLES_PER_FRAME * 8
\* length of buffer_refill: Box<[u8; MAX_SAMPLES_PER_FRAME * 5]>
REFILL_LEN == MAX_SAMPLES_PER_FRAME * 5

Min(a, b) == IF a < b THEN a ELSE b

(***************************************************************************)
(* Byte streams.  Byte 0 is filler (non-frame data); a frame is the byte   *)
(* sequence 1, 2, .., FrameLen.  A source stream is a sequence of filler   *)
(* bytes and frames, possibly cut in the middle of its last frame.         *)
(***************************************************************************)
Byte == 0..FrameLen

\* the bytes that may follow byte b in a stream
NextBytes(b) == IF b \in 1..(FrameLen - 1) THEN {b + 1} ELSE {0, 1}

RECURSIVE StreamsOfLen(_)
StreamsOfLen(n) ==
    IF n = 0 THEN {<<>>}
    ELSE UNION {{Append(s, b) : b \in (IF Len(s) = 0 THEN {0, 1}
                                                   ELSE NextBytes(s[Len(s)]))} :
                s \in StreamsOfLen(n - 1)}

Streams == UNION {StreamsOfLen(n) : n \in 0..MaxSrcLen}

(***************************************************************************)
(* The frame codec, sequential surface: ffi::mp3dec_decode_frame.          *)
(* A response is [samples, frame_bytes]; the set holds every response the  *)
(* codec may give when offered buf.                                        *)
(***************************************************************************)
\* samples per channel the codec reports for a decoded frame
FRAME_SAMPLES == MAX_SAMPLES_PER_FRAME

\* a complete frame starts at index i of buf
FrameAt(buf, i) ==
    /\ i + FrameLen - 1 <= Len(buf)
    /\ \A j \in 1..FrameLen : buf[i + j - 1] = j

\* buf ends at index i - 1, or an incomplete frame starts at index i
PartialAt(buf, i) ==
    /\ i + FrameLen - 1 > Len(buf)
    /\ \A j \in i..Len(buf) : buf[j] = j - i + 1

\* number of leading bytes of buf that belong to no frame
Garbage(buf) ==
    (CHOOSE i \in 1..(Len(buf) + 1) :
        /\ FrameAt(buf, i) \/ PartialAt(buf, i)
        /\ \A k \in 1..(i - 1) : ~(FrameAt(buf, k) \/ PartialAt(buf, k))) - 1

Resp(s, fb) == [samples |-> s, frame_bytes |-> fb]

mp3dec_decode_frame(buf) ==
    LET g == Garbage(buf) IN
    IF g = 0
    THEN IF FrameAt(buf, 1) THEN {Resp(FRAME_SAMPLES, FrameLen)}
                            ELSE {Resp(0, 0)}
    ELSE {Resp(0, j) : j \in 1..g} \cup
         (IF FrameAt(buf, g + 1) THEN {Resp(FRAME_SAMPLES, g + FrameLen)} ELSE {})

\* the codec as a black box: any sample count it can report and any number
\* of consumed bytes up to the bytes offered; a frame consumes bytes
AnyResponse(buf) ==
    {Resp(s, fb) : s \in {0, FRAME_SAMPLES}, fb \in 0..Len(buf)}
        \ {Resp(FRAME_SAMPLES, 0)}

(***************************************************************************)
(* Decoder (lib.rs 34-209).                                                *)
(***************************************************************************)
\* Option<usize> of `bytes_read`
None == <<>>
Some(n) == <<n>>

\* Result values returned to the caller.  `at` is the stream offset of the
\* first byte of the decoded frame (0 when the result is no frame).
Ret(kind, samples, at) == [kind |-> kind, samples |-> samples, at |-> at]
NoResult == Ret("none", 0, 0)

\* refill that overwrites the ring buffer instead of appending to it
refill_Overwrite(buf, data) == data

\* Decoder::refill, lib.rs 203-208: the bytes read are appended at the tail.
refill(buf, data) == buf \o data

\* a next_frame that refills in every iteration
NeedsRefill_Always(buf) == TRUE

\* the condition of the refill step of next_frame, lib.rs 182
NeedsRefill(buf) == Len(buf) < REFILL_TRIGGER

\* a trim that drops the bytes from the tail of the ring buffer
TrimFront_FromBack(buf, frame_bytes) == SubSeq(buf, 1, Len(buf) - frame_bytes)

\* Decoder::decode_frame, lib.rs 119-121: truncate_front keeps the last
\* current_len - frame_bytes bytes.
TrimFront(buf, frame_bytes) == SubSeq(buf, frame_bytes + 1, Len(buf))

\* Decoder::decode_frame, lib.rs 123-131: classification of the response.
Classify(r) ==
    IF r.samples = 0
    THEN IF r.frame_bytes > 0 THEN "SkippedData" ELSE "InsufficientData"
    ELSE "Ok"

\* a match whose retry arm covers InsufficientData only
NextFrameMatch_NoSkipArm(res, bytes_read) ==
    IF res = "Ok" THEN "return"
    ELSE IF res = "InsufficientData"
         THEN IF bytes_read = Some(0) THEN "eof" ELSE "loop"
         ELSE "return"

\* a match that takes every short read for the end of the stream
NextFrameMatch_EofOnShortRead(res, bytes_read) ==
    IF res = "Ok" THEN "return"
    ELSE IF res \in {"InsufficientData", "SkippedData"}
         THEN IF bytes_read # None /\ bytes_read[1] < REFILL_LEN THEN "eof" ELSE "loop"
         ELSE "return"

\* Decoder::next_frame, lib.rs 188-199: what the match does with the value
\* of decode_frame: "return" (Ok or any other error), "eof" or "loop".
NextFrameMatch(res, bytes_read) ==
    IF res = "Ok" THEN "return"
    ELSE IF res \in {"InsufficientData", "SkippedData"}
         THEN IF bytes_read = Some(0) THEN "eof" ELSE "loop"
         ELSE "return"

\* a next_frame that swallows a failed read and tries again
OnReadError_Retry == "retry"

\* Decoder::next_frame, lib.rs 183 with refill, lib.rs 204: both `?` pass the
\* io::Error of reader.read up, so the call returns Err(Error::Io)
OnReadError == "return"

VARIABLES
    src,            \* the bytes of the reader (constant through a behaviour)
    oneByte,        \* the reader yields exactly one byte per read
    pos,            \* reader position = bytes read from the source so far
    buffer,         \* Decoder.buffer: the ring buffer, head first
    bytes_read,     \* next_frame's local: None or Some(n)
    pc,             \* "idle" | "top" | "decode": position inside next_frame
    result,         \* value returned by the last next_frame call
    consumed,       \* sum of frame_bytes over all codec invocations
    lastResp,       \* the codec's last response
    firstCall,      \* the current/last call is the first one
    eofSeen,        \* some next_frame call has returned Eof
    quietSinceEof,  \* every read since that Eof returned 0 bytes
    target,         \* offset of the first complete frame that lay ahead in
                    \* the stream when the current call began, -1 if none
    ioFailed,       \* a read of the current/last call failed
    reads,          \* reads issued since the call began or the codec was
                    \* last invoked, whichever is later
    overReported    \* the codec has reported more bytes than it was offered

dvars == <<src, oneByte, pos, buffer, bytes_read, pc, result, consumed,
           lastResp, firstCall, eofSeen, quietSinceEof, target, ioFailed, reads,
           overReported>>

\* offset of the first complete frame of the stream not yet consumed,
\* -1 when there is none
NextFrameAhead ==
    LET A == {a \in consumed..Len(src) : FrameAt(src, a + 1)} IN
    IF A = {} THEN -1 ELSE CHOOSE a \in A : \A b \in A : a <= b

DecInit ==
    /\ src \in Streams
    /\ oneByte \in BOOLEAN
    /\ pos = 0
    /\ buffer = <<>>
    /\ bytes_read = None
    /\ pc = "idle"
    /\ result = NoResult
    /\ consumed = 0
    /\ lastResp = Resp(0, 0)
    /\ firstCall = TRUE
    /\ eofSeen = FALSE
    /\ quietSinceEof = TRUE
    /\ target = -1
    /\ ioFailed = FALSE
    /\ reads = 0
    /\ overReported = FALSE

\* The sizes reader.read(&mut buffer_refill[..]) may return: 0 at the end of
\* the stream, otherwise any short or full read.
ReadSizes ==
    IF pos = Len(src) THEN {0}
    ELSE IF oneByte THEN {1}
    ELSE 1..Min(REFILL_LEN, Len(src) - pos)

\* The caller invokes next_frame.
Call ==
    /\ pc = "idle"
    /\ pc' = "top"
    /\ firstCall' = (result = NoResult)
    /\ bytes_read' = None
    /\ target' = NextFrameAhead
    /\ ioFailed' = FALSE
    /\ reads' = 0
    /\ UNCHANGED <<src, oneByte, pos, buffer, result, consumed, lastResp,
                   eofSeen, quietSinceEof, overReported>>

\* lib.rs 182-183, 203-208: buffer below the trigger, the read succeeds.
Refill ==
    /\ pc = "top"
    /\ NeedsRefill(buffer)
    /\ \E n \in ReadSizes :
        /\ buffer' = refill(buffer, SubSeq(src, pos + 1, pos + n))
        /\ pos' = pos + n
        /\ bytes_read' = Some(n)
        /\ quietSinceEof' = (quietSinceEof /\ (eofSeen => n = 0))
    /\ pc' = "decode"
    /\ reads' = reads + 1
    /\ UNCHANGED <<src, oneByte, result, consumed, lastResp, firstCall, eofSeen,
                   target, ioFailed, overReported>>

\* lib.rs 183, 204: the read fails; what next_frame does with the error.
RefillFails ==
    /\ pc = "top"
    /\ NeedsRefill(buffer)
    /\ ~oneByte
    /\ ioFailed' = TRUE
    /\ reads' = reads + 1
    /\ IF OnReadError = "return"
       THEN /\ result' = Ret("Io", 0, 0)
            /\ pc' = "idle"
       ELSE /\ result' = result
            /\ pc' = "top"
    /\ quietSinceEof' = (quietSinceEof /\ ~eofSeen)
    /\ UNCHANGED <<src, oneByte, pos, buffer, bytes_read, consumed, lastResp,
                   firstCall, eofSeen, target, overReported>>

\* lib.rs 184-185: buffer at or above the trigger, no read.
SkipRefill ==
    /\ pc = "top"
    /\ ~NeedsRefill(buffer)
    /\ bytes_read' = None
    /\ pc' = "decode"
    /\ UNCHANGED <<src, oneByte, pos, buffer, result, consumed, lastResp,
                   firstCall, eofSeen, quietSinceEof, target, ioFailed, reads,
                   overReported>>

\* lib.rs 188-199 with decode_frame (92-132): one codec invocation, the trim
\* of the ring buffer, the classification and the match of next_frame.
DecodeStep(r) ==
    LET res == Classify(r)
        m   == NextFrameMatch(res, bytes_read)
    IN  /\ buffer' = TrimFront(buffer, r.frame_bytes)
        /\ consumed' = consumed + r.frame_bytes
        /\ lastResp' = r
        /\ pc' = IF m = "loop" THEN "top" ELSE "idle"
        /\ result' = IF m = "loop" THEN result
                     ELSE IF m = "eof" THEN Ret("Eof", 0, 0)
                     ELSE IF res = "Ok"
                          THEN Ret("Frame", r.samples,
                                   consumed + r.frame_bytes - FrameLen)
                          ELSE Ret(res, 0, 0)
        /\ eofSeen' = (eofSeen \/ m = "eof")
        /\ quietSinceEof' = IF m = "eof" /\ ~eofSeen THEN TRUE ELSE quietSinceEof
        /\ reads' = 0
        /\ UNCHANGED <<src, oneByte, pos, bytes_read, firstCall, target,
                       ioFailed, overReported>>

\* the step over the codec that reads the frames of the stream
Decode ==
    /\ pc = "decode"
    /\ \E r \in mp3dec_decode_frame(buffer) : DecodeStep(r)

\* the step over a codec of which nothing is known but that it consumes no
\* more than it was offered
DecodeAny ==
    /\ pc = "decode"
    /\ \E r \in AnyResponse(buffer) : DecodeStep(r)

\* usize arithmetic: 2^30 stands for 2^64, the number of values of a usize;
\* it exceeds every length of the model, which is all the wrapped difference
\* is used for
UsizeModulus == 1073741824

\* lib.rs 119-121: `current_len - frame_info.frame_bytes as usize`. A build
\* with overflow checks panics when the difference is negative, a build
\* without them wraps it.
UsizeSub(a, b) ==
    IF a >= b
    THEN {[panic |-> FALSE, v |-> a - b]}
    ELSE {[panic |-> TRUE, v |-> 0],
          [panic |-> FALSE, v |-> (a - b) % UsizeModulus]}

\* SliceRingBuffer::truncate_front as called at lib.rs 120-121: keeps the
\* last `len` elements and has no effect when `len` is not below the length
TruncateFront(buf, len) ==
    IF len >= Len(buf) THEN buf
    ELSE SubSeq(buf, Len(buf) - len + 1, Len(buf))

\* lib.rs 92-132 and 188-199 when the codec reports one byte more than the
\* ring buffer held
DecodeOverReport ==
    /\ pc = "decode"
    /\ ~overReported
    /\ \E s \in {0, FRAME_SAMPLES} :
       \E d \in UsizeSub(Len(buffer), Len(buffer) + 1) :
        LET r   == Resp(s, Len(buffer) + 1)
            res == Classify(r)
            m   == NextFrameMatch(res, bytes_read)
        IN  /\ lastResp' = r
            /\ IF d.panic
               THEN /\ pc' = "aborted"
                    /\ UNCHANGED <<buffer, consumed, result, eofSeen,
                                   quietSinceEof>>
               ELSE /\ buffer' = TruncateFront(buffer, d.v)
                    /\ consumed' = consumed + r.frame_bytes
                    /\ pc' = IF m = "loop" THEN "top" ELSE "idle"
                    /\ result' = IF m = "loop" THEN result
                                 ELSE IF m = "eof" THEN Ret("Eof", 0, 0)
                                 ELSE IF res = "Ok"
                                      THEN Ret("Frame", r.samples, consumed)
                                      ELSE Ret(res, 0, 0)
                    /\ eofSeen' = (eofSeen \/ m = "eof")
                    /\ quietSinceEof' = IF m = "eof" /\ ~eofSeen
                                        THEN TRUE ELSE quietSinceEof
    /\ overReported' = TRUE
    /\ reads' = 0
    /\ UNCHANGED <<src, oneByte, pos, bytes_read, firstCall, target, ioFailed>>

(***************************************************************************)
(* Codec status codes (minimp3_ex.h) and their translation, error.rs 74-84.*)
(***************************************************************************)
MP3D_E_PARAM == -1
MP3D_E_MEMORY == -2
MP3D_E_IOERROR == -3
MP3D_E_USER == -4
MP3D_E_DECODE == -5
\* a status value that is none of the known codes
MP3D_E_OTHER == -6

StatusCodes == {0, MP3D_E_PARAM, MP3D_E_MEMORY, MP3D_E_IOERROR, MP3D_E_USER,
                MP3D_E_DECODE, MP3D_E_OTHER}

\* a translation that takes every status it does not know for success
from_mini_error_UnknownIsOk(ec) ==
    CASE ec = MP3D_E_MEMORY -> "MiniMemory"
      [] ec = MP3D_E_IOERROR -> "MiniIo"
      [] ec = MP3D_E_PARAM -> "MiniParam"
      [] ec = MP3D_E_USER -> "MiniUser"
      [] ec = MP3D_E_DECODE -> "MiniDecode"
      [] OTHER -> "Ok"

\* "Ok" stands for Ok(()), any other value for Err(Error::<value>)
from_mini_error(ec) ==
    CASE ec = 0 -> "Ok"
      [] ec = MP3D_E_MEMORY -> "MiniMemory"
      [] ec = MP3D_E_IOERROR -> "MiniIo"
      [] ec = MP3D_E_PARAM -> "MiniParam"
      [] ec = MP3D_E_USER -> "MiniUser"
      [] ec = MP3D_E_DECODE -> "MiniDecode"
      [] OTHER -> "MiniUnknown"

FatalCodecErrors == {"MiniMemory", "MiniIo", "MiniParam", "MiniUser",
                     "MiniDecode", "MiniUnknown"}

(***************************************************************************)
(* SeekDecoder (lib.rs 246-389) over the codec's extended context.         *)
(***************************************************************************)
\* Bounds: samples of the longest stream, longest buffer given to read_samples
MaxPcmLen == 3
MaxBufLen == 2

VARIABLES
    pcmLen,         \* number of samples the stream decodes to
    sd,             \* "none" | "open" | "failed": the SeekDecoder
    ex,             \* Mp3dec.ex as the wrapper sees it: cur_sample, last_error
    sres,           \* the last operation and what it returned
    exResp,         \* the codec's response inside that operation
    collected,      \* samples handed to the caller since the last reposition
    runFrom,        \* sample index of that reposition (0 after new)
    seekedAtEnd,    \* that reposition was a seek at end of stream
    exStatus,       \* status code the codec gave the last new or seek_samples
                    \* (0 after the operations that receive none)
    exOpen,         \* codec extended contexts opened and not closed
    holder          \* where the SeekDecoder and its Mp3dec holder live and
                    \* what the user-data pointers of the bridge hold

svars ==
    <<pcmLen, sd, ex, sres, exResp, collected, runFrom, seekedAtEnd, exStatus,
      exOpen, holder>>

\* The sample at position i (0-based) of the stream has value i + 1.
Samples(from, n) == [i \in 1..n |-> from + i]

\* status codes the codec can leave in last_error while reading
ReadErrors == {MP3D_E_IOERROR, MP3D_E_DECODE}

ExResp(samples, frame_bytes, e) ==
    [samples |-> samples, frame_bytes |-> frame_bytes, ex |-> e]

\* a codec response as recorded in exResp, with the length of the caller's
\* buffer (0 for the operations that take none)
Seen(c, buflen) ==
    [samples |-> c.samples, frame_bytes |-> c.frame_bytes, ex |-> c.ex,
     buflen |-> buflen]

\* ffi::mp3dec_ex_open_cb: a status and the opened context; `opened` says
\* whether the context holds codec resources when the call returns, which
\* it does after status 0 and may after a failure
mp3dec_ex_open_cb ==
    {o \in [status : StatusCodes, ex : {[cur_sample |-> 0, last_error |-> 0]},
            opened : BOOLEAN] : o.status = 0 => o.opened}

\* ffi::mp3dec_ex_read_frame: at most one frame's samples from the cursor;
\* 0 samples at end of stream and in the error state; a read may fail; bytes
\* that are no frame may be consumed without producing samples.
mp3dec_ex_read_frame(e, max_samples) ==
    IF e.last_error # 0 \/ e.cur_sample >= pcmLen
    THEN {ExResp(0, 0, e)}
    ELSE LET n == Min(Min(FRAME_SAMPLES - (e.cur_sample % FRAME_SAMPLES),
                          pcmLen - e.cur_sample), max_samples)
         IN  {ExResp(n, FrameLen, [e EXCEPT !.cur_sample = @ + n])}
             \cup {ExResp(0, FrameLen, e)}
             \cup {ExResp(0, 0, [e EXCEPT !.last_error = c]) : c \in ReadErrors}

\* ffi::mp3dec_ex_read: up to n samples from the cursor; fewer at end of
\* stream, or when a read fails (last_error is then set).
mp3dec_ex_read(e, n) ==
    IF e.last_error # 0 THEN {ExResp(0, 0, e)}
    ELSE LET full == Min(n, pcmLen - e.cur_sample)
         IN  {ExResp(full, 0, [e EXCEPT !.cur_sample = @ + full])}
             \cup {ExResp(j, 0, [cur_sample |-> e.cur_sample + j, last_error |-> c]) :
                     j \in 0..(full - 1), c \in ReadErrors}

\* ffi::mp3dec_ex_seek: status 0 moves the cursor and clears the error state
mp3dec_ex_seek(e, sample) ==
    {[status |-> 0, ex |-> [cur_sample |-> sample, last_error |-> 0]]}
    \cup {[status |-> c, ex |-> e] : c \in StatusCodes \ {0}}

\* the result of an operation of SeekDecoder: `data` are the samples given
\* to the caller, `n` the count of read_samples
SRet(op, kind, n, data) == [op |-> op, kind |-> kind, n |-> n, data |-> data]

\* a classification that does not look at frame_bytes
SeekClassify_NoSkip(samples, frame_bytes) ==
    IF samples = 0 THEN "InsufficientData" ELSE "Ok"

\* SeekDecoder::decode_frame, lib.rs 323-331
SeekClassify(samples, frame_bytes) ==
    IF samples = 0
    THEN IF frame_bytes > 0 THEN "SkippedData" ELSE "InsufficientData"
    ELSE "Ok"

\* read_samples that takes every short count for the end of the stream
ReadSamplesResult_NoErrorCheck(len, buflen, last_error) ==
    IF len <= buflen THEN [kind |-> "Ok", n |-> len]
    ELSE [kind |-> "panic", n |-> 0]

\* SeekDecoder::read_samples, lib.rs 352-361: len is the codec's count,
\* buflen is buf.len(), last_error the codec's field after the call.
\* [kind, n]: Ok(n), Err(kind) or the panic.
ReadSamplesResult(len, buflen, last_error) ==
    IF len = buflen THEN [kind |-> "Ok", n |-> len]
    ELSE IF len < buflen
         THEN IF from_mini_error(last_error) # "Ok"
              THEN [kind |-> from_mini_error(last_error), n |-> 0]
              ELSE [kind |-> "Ok", n |-> len]
         ELSE [kind |-> "panic", n |-> 0]

\* SeekDecoder::read_sample_slice, lib.rs 371-376, applied to the value of
\* read_samples: Err(e), Ok(None) or Ok(Some(&buf[..len]))
ReadSampleSliceResult(r) ==
    IF r.kind # "Ok" THEN r
    ELSE IF r.n = 0 THEN [kind |-> "None", n |-> 0]
                    ELSE [kind |-> "Some", n |-> r.n]

\* seek_samples that hands the codec the index before the one asked for
SeekArgument_OffByOne(sample) == IF sample > 0 THEN sample - 1 ELSE 0

\* SeekDecoder::seek_samples, lib.rs 380-383: the sample index handed to
\* the codec
SeekArgument(sample) == sample

\* lib.rs 246-258, 385-388: neither Mp3dec nor SeekDecoder implements Drop
\* and nothing calls ffi::mp3dec_ex_close, so the drop glue frees the Box
\* and drops the reader only
CloseOnDrop == FALSE

\* no SeekDecoder exists
NoHolder ==
    [dec |-> "none", loc |-> "none", read_data |-> "null", seek_data |-> "null",
     atOpen |-> "none"]

\* lib.rs 270-274: the Mp3dec value as the struct expression builds it in the
\* frame of new, io zeroed
FreshHolder ==
    [dec |-> "none", loc |-> "frame", read_data |-> "null", seek_data |-> "null",
     atOpen |-> "none"]

\* a constructor that takes the address of the reader before the value is
\* moved into its Box
NewSteps_BindBeforeBox == <<"bind", "box", "open">>

\* SeekDecoder::new: Box::new (lib.rs 270), io.read_data / io.seek_data
\* (lib.rs 278-282), mp3dec_ex_open_cb (lib.rs 285-291)
NewSteps == <<"box", "bind", "open">>

\* one step of new on the holder: "box" moves the value to the heap, "bind"
\* stores the current address of the reader in both user-data pointers,
\* "open" hands the bridge to the codec, which calls back at once; atOpen
\* records whether both pointers then held the address of the reader
NewStep(h, step) ==
    CASE step = "box"  -> [h EXCEPT !.loc = "heap"]
      [] step = "bind" -> [h EXCEPT !.read_data = h.loc, !.seek_data = h.loc]
      [] step = "open" -> [h EXCEPT !.atOpen =
                              IF h.read_data = h.loc /\ h.seek_data = h.loc
                              THEN h.loc ELSE "dangling"]

\* lib.rs 256-258, 294-296: the SeekDecoder holds a Box, so moving the
\* SeekDecoder to `to` moves the pointer to the holder, not the holder
MoveDecoder(h, to) == [h EXCEPT !.dec = to]

SeekInit ==
    /\ pcmLen \in 0..MaxPcmLen
    /\ sd = "none"
    /\ ex = [cur_sample |-> 0, last_error |-> 0]
    /\ sres = SRet("none", "none", 0, <<>>)
    /\ exResp = Seen(ExResp(0, 0, ex), 0)
    /\ collected = <<>>
    /\ runFrom = 0
    /\ seekedAtEnd = FALSE
    /\ exStatus = 0
    /\ exOpen = 0
    /\ holder = NoHolder

\* SeekDecoder::new, lib.rs 269-297
SeekNew ==
    /\ sd = "none"
    /\ \E o \in mp3dec_ex_open_cb :
        LET r == from_mini_error(o.status) IN
        /\ sd' = IF r = "Ok" THEN "open" ELSE "failed"
        /\ ex' = o.ex
        /\ sres' = SRet("new", r, 0, <<>>)
        /\ exStatus' = o.status
        /\ exResp' = Seen(ExResp(0, 0, o.ex), 0)
        /\ exOpen' = IF o.opened THEN exOpen + 1 ELSE exOpen
        /\ holder' =
            LET h == NewStep(NewStep(NewStep(FreshHolder, NewSteps[1]),
                                     NewSteps[2]), NewSteps[3])
            IN  IF r = "Ok" THEN MoveDecoder(h, "a")
                ELSE [h EXCEPT !.loc = "none"]
    /\ UNCHANGED <<pcmLen, collected, runFrom, seekedAtEnd>>

\* SeekDecoder::decode_frame, lib.rs 299-332
SeekDecodeFrame ==
    /\ sd = "open"
    /\ \E c \in mp3dec_ex_read_frame(ex, MAX_SAMPLES_PER_FRAME) :
        LET r == SeekClassify(c.samples, c.frame_bytes)
            data == IF r = "Ok" THEN Samples(ex.cur_sample, c.samples) ELSE <<>>
        IN  /\ ex' = c.ex
            /\ exResp' = Seen(c, 0)
            /\ sres' = SRet("decode_frame", r, 0, data)
            /\ collected' = collected \o data
    /\ exStatus' = 0
    /\ UNCHANGED <<pcmLen, sd, runFrom, seekedAtEnd, exOpen, holder>>

\* SeekDecoder::read_samples, lib.rs 347-362
SeekReadSamples ==
    /\ sd = "open"
    /\ \E buflen \in 0..MaxBufLen : \E c \in mp3dec_ex_read(ex, buflen) :
        LET r == ReadSamplesResult(c.samples, buflen, c.ex.last_error)
            data == IF r.kind = "Ok" THEN Samples(ex.cur_sample, r.n) ELSE <<>>
        IN  /\ ex' = c.ex
            /\ exResp' = Seen(c, buflen)
            /\ sres' = SRet("read_samples", r.kind, r.n, data)
            /\ collected' = collected \o data
    /\ exStatus' = 0
    /\ UNCHANGED <<pcmLen, sd, runFrom, seekedAtEnd, exOpen, holder>>

\* SeekDecoder::read_samples, lib.rs 347-362, when the codec reports one
\* sample more than buf.len()
SeekReadSamplesOverReport ==
    /\ sd = "open"
    /\ \E buflen \in 0..MaxBufLen :
        LET c == ExResp(buflen + 1, 0, ex)
            r == ReadSamplesResult(c.samples, buflen, c.ex.last_error)
        IN  /\ exResp' = Seen(c, buflen)
            /\ sres' = SRet("read_samples", r.kind, r.n, <<>>)
            /\ sd' = IF r.kind = "panic" THEN "aborted" ELSE sd
    /\ exStatus' = 0
    /\ UNCHANGED <<pcmLen, ex, collected, runFrom, seekedAtEnd, exOpen, holder>>

\* SeekDecoder::read_sample_slice, lib.rs 367-377
SeekReadSampleSlice ==
    /\ sd = "open"
    /\ \E buflen \in 0..MaxBufLen : \E c \in mp3dec_ex_read(ex, buflen) :
        LET r == ReadSampleSliceResult(
                     ReadSamplesResult(c.samples, buflen, c.ex.last_error))
            data == IF r.kind = "Some" THEN Samples(ex.cur_sample, r.n) ELSE <<>>
        IN  /\ ex' = c.ex
            /\ exResp' = Seen(c, buflen)
            /\ sres' = SRet("read_sample_slice", r.kind, r.n, data)
            /\ collected' = collected \o data
    /\ exStatus' = 0
    /\ UNCHANGED <<pcmLen, sd, runFrom, seekedAtEnd, exOpen, holder>>

\* SeekDecoder::seek_samples, lib.rs 380-383
SeekSamples ==
    /\ sd = "open"
    /\ \E sample \in 0..pcmLen :
       \E c \in mp3dec_ex_seek(ex, SeekArgument(sample)) :
        LET r == from_mini_error(c.status) IN
        /\ ex' = c.ex
        /\ exResp' = Seen(ExResp(0, 0, c.ex), 0)
        /\ sres' = SRet("seek_samples", r, sample, <<>>)
        /\ exStatus' = c.status
        /\ collected' = IF c.status = 0 THEN <<>> ELSE collected
        /\ runFrom' = IF c.status = 0 THEN sample ELSE runFrom
        /\ seekedAtEnd' = IF c.status = 0
                          THEN ex.cur_sample = pcmLen /\ ex.last_error = 0
                          ELSE seekedAtEnd
    /\ UNCHANGED <<pcmLen, sd, exOpen, holder>>

\* the owner moves the SeekDecoder value (returns it, stores it elsewhere)
SeekMove ==
    /\ sd = "open"
    /\ holder' = MoveDecoder(holder, IF holder.dec = "a" THEN "b" ELSE "a")
    /\ UNCHANGED <<pcmLen, sd, ex, sres, exResp, collected, runFrom,
                   seekedAtEnd, exStatus, exOpen>>

\* the owner drops the SeekDecoder: drop glue of Box<Mp3dec<R>>
SeekDrop ==
    /\ sd = "open"
    /\ sd' = "dropped"
    /\ sres' = SRet("drop", "Ok", 0, <<>>)
    /\ exStatus' = 0
    /\ exOpen' = IF CloseOnDrop THEN 0 ELSE exOpen
    /\ holder' = [holder EXCEPT !.dec = "none", !.loc = "none"]
    /\ UNCHANGED <<pcmLen, ex, exResp, collected, runFrom, seekedAtEnd>>

\* SeekDecoder::into_inner, lib.rs 385-388: the reader is moved out of the
\* holder and the rest of it is dropped
SeekIntoInner ==
    /\ sd = "open"
    /\ sd' = "inner"
    /\ sres' = SRet("into_inner", "Ok", 0, <<>>)
    /\ exStatus' = 0
    /\ exOpen' = IF CloseOnDrop THEN 0 ELSE exOpen
    /\ holder' = [holder EXCEPT !.dec = "none", !.loc = "none"]
    /\ UNCHANGED <<pcmLen, ex, exResp, collected, runFrom, seekedAtEnd>>

(***************************************************************************)
(* read_callback (lib.rs 211-232): the bridge the codec calls to pull      *)
(* bytes from the reader of a SeekDecoder.                                 *)
(***************************************************************************)
\* Bound: largest request the codec makes of the callback
MaxReq == 5

\* lib.rs 228: the value returned on a failed read, u64::MAX, the bit
\* pattern of -1; no request size reaches it
U64_MAX == -1

VARIABLES
    cbSize,         \* the `size` argument of the call
    cbBuf,          \* buf[0..size): per cell, the number of the read that
                    \* wrote it last (0: never written)
    position,       \* the local `position`
    cbReads,        \* reads issued so far by this call
    cbLast,         \* outcome of the last read: "none" | "ok" | "zero" | "err"
    cbPc,           \* "loop" while the call runs, "done" once it returned
    cbRet           \* the returned value

cvars == <<cbSize, cbBuf, position, cbReads, cbLast, cbPc, cbRet>>

\* a read that writes from the start of buf instead of the unfilled tail
ReadTarget_FromStart(pos0, n) == 1..n

\* lib.rs 219: reader.read(&mut buf[position..]) returning Ok(n) writes the
\* first n cells of the slice that starts at `position`
ReadTarget(pos0, n) == (pos0 + 1)..(pos0 + n)

CbInit ==
    /\ cbSize \in 0..MaxReq
    /\ cbBuf = [i \in 1..cbSize |-> 0]
    /\ position = 0
    /\ cbReads = 0
    /\ cbLast = "none"
    /\ cbPc = "loop"
    /\ cbRet = 0

\* lib.rs 218-224: Ok(n) with n > 0; Read never reports more than the
\* length of the slice it was given
CbRead ==
    /\ cbPc = "loop"
    /\ position < cbSize
    /\ \E n \in 1..(cbSize - position) :
        /\ cbBuf' = [i \in 1..cbSize |->
                        IF i \in ReadTarget(position, n)
                        THEN cbReads + 1 ELSE cbBuf[i]]
        /\ position' = position + n
    /\ cbReads' = cbReads + 1
    /\ cbLast' = "ok"
    /\ UNCHANGED <<cbSize, cbPc, cbRet>>

\* lib.rs 220-222: Ok(0) returns the bytes placed so far
CbReadZero ==
    /\ cbPc = "loop"
    /\ position < cbSize
    /\ cbReads' = cbReads + 1
    /\ cbLast' = "zero"
    /\ cbPc' = "done"
    /\ cbRet' = position
    /\ UNCHANGED <<cbSize, cbBuf, position>>

\* lib.rs 225-229: Err(_) returns the sentinel
CbReadFails ==
    /\ cbPc = "loop"
    /\ position < cbSize
    /\ cbReads' = cbReads + 1
    /\ cbLast' = "err"
    /\ cbPc' = "done"
    /\ cbRet' = U64_MAX
    /\ UNCHANGED <<cbSize, cbBuf, position>>

\* lib.rs 218, 231: the loop condition fails and position is returned
CbReturn ==
    /\ cbPc = "loop"
    /\ ~(position < cbSize)
    /\ cbPc' = "done"
    /\ cbRet' = position
    /\ UNCHANGED <<cbSize, cbBuf, position, cbReads, cbLast>>

CbUnused ==
    /\ cbSize = 0
    /\ cbBuf = <<>>
    /\ position = 0
    /\ cbReads = 0
    /\ cbLast = "none"
    /\ cbPc = "unused"
    /\ cbRet = 0

vars == <<dvars, svars, cvars>>

\* the decoder that a specification does not exercise is never constructed
DecUnused ==
    /\ src = <<>>
    /\ oneByte = FALSE
    /\ pos = 0
    /\ buffer = <<>>
    /\ bytes_read = None
    /\ pc = "unused"
    /\ result = NoResult
    /\ consumed = 0
    /\ lastResp = Resp(0, 0)
    /\ firstCall = TRUE
    /\ eofSeen = FALSE
    /\ quietSinceEof = TRUE
    /\ target = -1
    /\ ioFailed = FALSE
    /\ reads = 0
    /\ overReported = FALSE

SeekUnused ==
    /\ pcmLen = 0
    /\ sd = "unused"
    /\ ex = [cur_sample |-> 0, last_error |-> 0]
    /\ sres = SRet("none", "none", 0, <<>>)
    /\ exResp = Seen(ExResp(0, 0, ex), 0)
    /\ collected = <<>>
    /\ runFrom = 0
    /\ seekedAtEnd = FALSE
    /\ exStatus = 0
    /\ exOpen = 0
    /\ holder = NoHolder

Init == DecInit /\ SeekUnused /\ CbUnused

Next ==
    \/ Call /\ UNCHANGED <<svars, cvars>>
    \/ Refill /\ UNCHANGED <<svars, cvars>>
    \/ RefillFails /\ UNCHANGED <<svars, cvars>>
    \/ SkipRefill /\ UNCHANGED <<svars, cvars>>
    \/ Decode /\ UNCHANGED <<svars, cvars>>

Spec == Init /\ [][Next]_vars

\* The Decoder over the black-box codec and a source of BUFFER_SIZE bytes
\* whose content does not matter, read in pieces of any size.
GenInit ==
    /\ src = [i \in 1..BUFFER_SIZE |-> 0]
    /\ oneByte = FALSE
    /\ pos = 0
    /\ buffer = <<>>
    /\ bytes_read = None
    /\ pc = "idle"
    /\ result = NoResult
    /\ consumed = 0
    /\ lastResp = Resp(0, 0)
    /\ firstCall = TRUE
    /\ eofSeen = FALSE
    /\ quietSinceEof = TRUE
    /\ target = -1
    /\ ioFailed = FALSE
    /\ reads = 0
    /\ overReported = FALSE

GenNext ==
    \/ Call /\ UNCHANGED <<svars, cvars>>
    \/ Refill /\ UNCHANGED <<svars, cvars>>
    \/ RefillFails /\ UNCHANGED <<svars, cvars>>
    \/ SkipRefill /\ UNCHANGED <<svars, cvars>>
    \/ DecodeAny /\ UNCHANGED <<svars, cvars>>

GenSpecInit == GenInit /\ SeekUnused /\ CbUnused

GenSpec == GenSpecInit /\ [][GenNext]_vars

\* A running next_frame call keeps executing, as in FairSpec.
GenStep ==
    (Refill \/ RefillFails \/ SkipRefill \/ DecodeAny)
        /\ UNCHANGED <<svars, cvars>>

GenFairSpec == GenSpecInit /\ [][GenNext]_vars /\ WF_vars(GenStep)

\* the Decoder over a codec that may report more than it was offered; a
\* behaviour is followed to the end of the call in which that happens
OverNext ==
    \/ Call /\ ~overReported /\ UNCHANGED <<svars, cvars>>
    \/ Refill /\ UNCHANGED <<svars, cvars>>
    \/ RefillFails /\ UNCHANGED <<svars, cvars>>
    \/ SkipRefill /\ UNCHANGED <<svars, cvars>>
    \/ Decode /\ UNCHANGED <<svars, cvars>>
    \/ DecodeOverReport /\ UNCHANGED <<svars, cvars>>

OverSpec == Init /\ [][OverNext]_vars

SeekSpecInit == SeekInit /\ DecUnused /\ CbUnused

SeekNext ==
    \/ SeekNew /\ UNCHANGED <<dvars, cvars>>
    \/ SeekDecodeFrame /\ UNCHANGED <<dvars, cvars>>
    \/ SeekReadSamples /\ UNCHANGED <<dvars, cvars>>
    \/ SeekReadSampleSlice /\ UNCHANGED <<dvars, cvars>>
    \/ SeekSamples /\ UNCHANGED <<dvars, cvars>>
    \/ SeekMove /\ UNCHANGED <<dvars, cvars>>
    \/ SeekDrop /\ UNCHANGED <<dvars, cvars>>
    \/ SeekIntoInner /\ UNCHANGED <<dvars, cvars>>

SeekSpec == SeekSpecInit /\ [][SeekNext]_vars

\* the SeekDecoder over a codec that may report more than it was offered
OverSeekNext ==
    \/ SeekNext
    \/ SeekReadSamplesOverReport /\ UNCHANGED <<dvars, cvars>>

OverSeekSpec == SeekSpecInit /\ [][OverSeekNext]_vars

CbSpecInit == CbInit /\ DecUnused /\ SeekUnused

CbNext ==
    \/ CbRead /\ UNCHANGED <<dvars, svars>>
    \/ CbReadZero /\ UNCHANGED <<dvars, svars>>
    \/ CbReadFails /\ UNCHANGED <<dvars, svars>>
    \/ CbReturn /\ UNCHANGED <<dvars, svars>>

CbSpec == CbSpecInit /\ [][CbNext]_vars

\* A running next_frame call keeps executing: the code is synchronous and
\* every step of its loop is enabled until it returns.
Step ==
    (Refill \/ RefillFails \/ SkipRefill \/ Decode) /\ UNCHANGED <<svars, cvars>>

FairSpec == Init /\ [][Next]_vars /\ WF_vars(Step)

(***************************************************************************)
(* Properties.                                                             *)
(***************************************************************************)
\* next_frame has returned (and is not running)
Returned == pc = "idle" /\ result # NoResult

\* the caller of SeekDecoder::decode_frame observes the end of the stream:
\* InsufficientData with no codec error pending
EndOfRun ==
    /\ sd = "open"
    /\ sres.op = "decode_frame"
    /\ sres.kind = "InsufficientData"
    /\ ex.last_error = 0

\* C1: Seek consistency.  A stream decodes to pcmLen samples; when a run of
\* decode calls that started at new (index 0) or at a successful
\* seek_samples(k) reaches the end of the stream, the samples handed to the
\* caller in that run are exactly those at positions [k, pcmLen).
C1_SeekConsistency ==
    EndOfRun => collected = Samples(runFrom, pcmLen - runFrom)

\* a run after seek_samples(k), 0 < k < S, issued at end of stream, has ended
C1_Witness ==
    /\ EndOfRun
    /\ seekedAtEnd
    /\ runFrom > 0
    /\ Len(collected) = pcmLen - runFrom
    /\ Len(collected) > 0

\* C2: next_frame never returns InsufficientData or SkippedData: a returned
\* value is a Frame, Eof or an IO error.
C2_NoInternalSignals ==
    Returned => result.kind \in {"Frame", "Eof", "Io"}

\* the first call has returned a frame that does not start the stream, and
\* the codec's last response consumed that frame only: the bytes before it
\* were skipped by earlier codec invocations of the same call
C2_Witness ==
    /\ Returned
    /\ firstCall
    /\ result.kind = "Frame"
    /\ result.at > 0
    /\ lastResp.frame_bytes = FrameLen

\* C3: EOF terminality.  Once next_frame has returned Eof and every later
\* read returned 0 bytes, every returned value is Eof.
C3_EofTerminal ==
    (eofSeen /\ quietSinceEof /\ Returned) => result.kind = "Eof"

\* C4: Eof is returned only when the codec reported insufficient data
\* (0 samples, 0 bytes) and the last refill read 0 bytes; a skipped-data
\* response never ends the call.
C4_EofOnlyOnInsufficient ==
    (Returned /\ result.kind = "Eof") =>
        (lastResp = Resp(0, 0) /\ bytes_read = Some(0))

\* the stream is n >= 1 filler bytes followed by one frame
FillerThenFrame ==
    /\ Len(src) > FrameLen
    /\ \A i \in 1..(Len(src) - FrameLen) : src[i] = 0
    /\ FrameAt(src, Len(src) - FrameLen + 1)

\* C5: Skip absorption.  For a stream of filler followed by a valid frame
\* the first next_frame call, unless a read fails, returns that frame.
C5_SkipAbsorption ==
    (FillerThenFrame /\ firstCall /\ Returned /\ result.kind # "Io") =>
        result = Ret("Frame", FRAME_SAMPLES, Len(src) - FrameLen)

C7_ShortReads ==
    /\ [][(oneByte /\ pc = "top" /\ pc' = "decode") =>
            (/\ bytes_read' # None
             /\ Len(buffer') = Len(buffer) + bytes_read'[1]
             /\ bytes_read'[1] = pos' - pos)]_vars
    /\ []((oneByte /\ Returned /\ result.kind = "Eof") => bytes_read = Some(0))
    /\ (oneByte /\ pc # "idle" /\ target >= 0)
           ~> (pc = "idle" /\ result = Ret("Frame", FRAME_SAMPLES, target))

\* a one-byte reader: a frame was returned after several one-byte refills
C7_Witness ==
    /\ oneByte
    /\ Returned
    /\ result.kind = "Frame"
    /\ result.at > 0
    /\ bytes_read = Some(1)
    /\ pos < Len(src)

\* the fatal error a nonzero last_error stands for
FatalOf(ec) ==
    CASE ec = MP3D_E_IOERROR -> "MiniIo"
      [] ec = MP3D_E_DECODE -> "MiniDecode"
      [] OTHER -> "MiniUnknown"

\* C8: SeekDecoder::decode_frame: a codec failure (nonzero last_error) is
\* returned as the fatal codec error; otherwise 0 samples with consumed
\* bytes is SkippedData and 0 samples with no consumed bytes is
\* InsufficientData.
C8_Classification ==
    sres.op = "decode_frame" =>
        IF exResp.ex.last_error # 0
        THEN sres.kind = FatalOf(exResp.ex.last_error)
        ELSE /\ (exResp.samples = 0 /\ exResp.frame_bytes > 0)
                    => sres.kind = "SkippedData"
             /\ (exResp.samples = 0 /\ exResp.frame_bytes = 0)
                    => sres.kind = "InsufficientData"

\* C9 as stated: SeekDecoder::decode_frame never returns SkippedData.
C9_SkippedNeverSurfaces ==
    sres.op = "decode_frame" => sres.kind # "SkippedData"

\* C9 amended: SeekDecoder::decode_frame returns SkippedData, with no
\* samples, exactly when the codec's response has 0 samples and nonzero
\* consumed bytes.
C9_SkippedSurfaces ==
    sres.op = "decode_frame" =>
        /\ sres.kind = "SkippedData"
               <=> (exResp.samples = 0 /\ exResp.frame_bytes > 0)
        /\ sres.kind = "SkippedData" => sres.data = <<>>

\* decode_frame has returned SkippedData before the end of the stream
C9_Witness ==
    /\ sres.op = "decode_frame"
    /\ sres.kind = "SkippedData"
    /\ ex.cur_sample < pcmLen

\* C10: read_samples: a full count is Ok(buf.len()) whatever last_error is;
\* a short count is the translated error when last_error is nonzero and
\* Ok(count) when it is zero.
C10_ReadSamples ==
    sres.op = "read_samples" =>
        LET len == exResp.samples
            n   == exResp.buflen
            le  == exResp.ex.last_error
        IN  /\ len = n => (sres.kind = "Ok" /\ sres.n = n)
            /\ (len < n /\ le # 0) => sres.kind = FatalOf(le)
            /\ (len < n /\ le = 0) => (sres.kind = "Ok" /\ sres.n = len)
            /\ (sres.kind = "Ok" /\ sres.n < n) => le = 0

\* a short, nonzero count came with an IO error and was returned as MiniIo
C10_Witness ==
    /\ sres.op = "read_samples"
    /\ sres.kind = "MiniIo"
    /\ exResp.samples > 0
    /\ exResp.samples < exResp.buflen

\* cells of buf the call has filled: exactly the first `position` ones, each
\* written once, in the order of the reads
CbFilledPrefix ==
    /\ position <= cbSize
    /\ \A i \in 1..cbSize : (cbBuf[i] # 0) <=> (i <= position)
    /\ \A i, j \in 1..cbSize : (i <= j /\ j <= position) => cbBuf[i] <= cbBuf[j]

\* C11: read_callback returns size once size bytes are placed, the bytes
\* placed so far (fewer than size) as soon as a read returns 0, and the
\* sentinel as soon as a read fails; every read goes into the unfilled tail,
\* no more than size bytes are placed, no read is issued once the request is
\* satisfied, and the result is in [0, size] or is the sentinel.
C11_ReadCallback ==
    /\ [](cbPc \in {"loop", "done"} => CbFilledPrefix)
    /\ [](cbPc = "done" =>
            /\ cbRet \in (0..cbSize) \cup {U64_MAX}
            /\ CASE cbLast = "zero" -> cbRet = position /\ cbRet < cbSize
                 [] cbLast = "err"  -> cbRet = U64_MAX
                 [] OTHER           -> cbRet = cbSize /\ position = cbSize)
    /\ [][cbReads' # cbReads =>
            /\ position < cbSize
            /\ cbReads' = cbReads + 1
            /\ (cbLast' \in {"zero", "err"} => cbPc' = "done")]_vars

\* a request met by several reads
C11_Witness ==
    /\ cbPc = "done"
    /\ cbSize = MaxReq
    /\ cbRet = cbSize
    /\ cbReads >= 2

\* the fatal codec error the design assigns to a nonzero status
CodecErrorOf(ec) ==
    IF ec = MP3D_E_MEMORY THEN "MiniMemory"
    ELSE IF ec = MP3D_E_IOERROR THEN "MiniIo"
    ELSE IF ec = MP3D_E_PARAM THEN "MiniParam"
    ELSE IF ec = MP3D_E_USER THEN "MiniUser"
    ELSE IF ec = MP3D_E_DECODE THEN "MiniDecode"
    ELSE "MiniUnknown"

\* C12: new and seek_samples return Ok exactly when the codec's status is 0;
\* a nonzero status yields the fatal codec error of that code (Unknown for a
\* code without a name), never InsufficientData, SkippedData or Eof, and a
\* failed new yields no decoder.
C12_StatusMapping ==
    sres.op \in {"new", "seek_samples"} =>
        /\ (sres.kind = "Ok") <=> (exStatus = 0)
        /\ exStatus # 0 =>
            /\ sres.kind = CodecErrorOf(exStatus)
            /\ sres.kind \in FatalCodecErrors
            /\ sres.kind \notin {"InsufficientData", "SkippedData", "Eof"}
        /\ sres.op = "new" => ((sd = "open") <=> (exStatus = 0))
        /\ sres.op = "seek_samples" => sd = "open"

\* a seek the codec refuses with a status that has no name
C12_Witness ==
    /\ sres.op = "seek_samples"
    /\ exStatus = MP3D_E_OTHER
    /\ sres.kind = "MiniUnknown"

\* C13: a failed read of a refill ends the next_frame call in that very
\* step with the IO error: the codec is not invoked, no further read is
\* issued, and the ring buffer (with the reader position and the bytes
\* consumed) is as it was before the failing read.
C13_IoErrorImmediate ==
    /\ [](ioFailed => (pc = "idle" /\ result = Ret("Io", 0, 0) /\ reads = 1))
    /\ [][(ioFailed' /\ ~ioFailed) =>
            /\ pc = "top" /\ pc' = "idle"
            /\ buffer' = buffer
            /\ pos' = pos
            /\ consumed' = consumed
            /\ lastResp' = lastResp]_vars

\* a read that fails in a later iteration of a call, with bytes in the buffer
C13_Witness ==
    /\ ioFailed
    /\ result.kind = "Io"
    /\ buffer # <<>>
    /\ consumed > 0
    /\ lastResp.samples = 0

\* C14: whenever the codec reports more than it was offered the operation
\* aborts: Decoder::decode_frame returns neither Ok nor an Err value, and
\* next_frame does not go on with the ring buffer untrimmed.
C14_OverReportAborts ==
    overReported => pc = "aborted"

\* the half of C14 about SeekDecoder::read_samples, under OverSeekSpec: a
\* sample count above buf.len() ends in the panic of lib.rs 360
ReadSamplesOverReportAborts ==
    (sres.op = "read_samples" /\ exResp.samples > exResp.buflen) =>
        (sd = "aborted" /\ sres.kind = "panic")

\* C15: once a SeekDecoder has been dropped, into_inner has returned or new
\* has failed, every codec extended context that new opened is closed.
C15_ContextsClosed ==
    sd \in {"dropped", "inner", "failed"} => exOpen = 0

\* C16: the user-data pointers are bound after the holder is in its heap
\* allocation; from the open call until the decoder is dropped or
\* into_inner is called both pointers equal the address of the reader inside
\* the holder, and no operation relocates the holder meanwhile.
C16_AddressStability ==
    /\ [](sd \in {"open", "failed", "dropped", "inner"} => holder.atOpen = "heap")
    /\ [](sd = "open" =>
            /\ holder.loc = "heap"
            /\ holder.read_data = holder.loc
            /\ holder.seek_data = holder.loc)
    /\ [][(sd = "open" /\ sd' = "open") =>
            /\ holder'.loc = holder.loc
            /\ holder'.read_data = holder.read_data
            /\ holder'.seek_data = holder.seek_data]_vars

\* a decoder that was moved after construction and then decoded a frame
C16_Witness ==
    /\ sd = "open"
    /\ holder.dec = "b"
    /\ sres.op = "decode_frame"
    /\ sres.kind = "Ok"

\* C18: the ring buffer holds exactly the source bytes at stream positions
\* [consumed, read) in source order; a refill appends exactly the bytes just
\* read at the tail, and a codec invocation removes exactly the consumed
\* bytes from the head, once, whether or not it produced a frame.
C18_NoLossNoDuplication ==
    /\ [](pc # "unused" => buffer = SubSeq(src, consumed + 1, pos))
    /\ [][pos' # pos => buffer' = buffer \o SubSeq(src, pos + 1, pos')]_vars
    /\ [][(pc = "decode" /\ pc' # "decode") =>
            /\ consumed' = consumed + lastResp'.frame_bytes
            /\ buffer = SubSeq(buffer, 1, lastResp'.frame_bytes) \o buffer'
            /\ pos' = pos]_vars

\* filler was skipped and the buffer holds the end of a frame, filler and
\* another frame, with more of the stream still unread
C18_Witness ==
    /\ consumed > 0
    /\ lastResp.samples = 0
    /\ pos < Len(src)
    /\ Len(buffer) >= 3
    /\ buffer[1] # buffer[2]
    /\ buffer[2] # buffer[3]

\* C17: a source read is issued only when the ring buffer holds fewer than
\* 8 x MAX_SAMPLES_PER_FRAME bytes, at most once per codec invocation, and
\* appends at most 5 x MAX_SAMPLES_PER_FRAME bytes; so, whatever the read
\* sizes and the codec's responses (consumed <= offered), the ring buffer
\* stays below 13 x MAX_SAMPLES_PER_FRAME bytes and within its reserved
\* capacity of 15 x MAX_SAMPLES_PER_FRAME.
C17_BufferCeiling ==
    /\ [](Len(buffer) < 13 * MAX_SAMPLES_PER_FRAME)
    /\ [](Len(buffer) <= BUFFER_SIZE /\ BUFFER_SIZE = 15 * MAX_SAMPLES_PER_FRAME)
    /\ [](reads <= 1)
    /\ [][reads' = reads + 1 =>
            /\ Len(buffer) < 8 * MAX_SAMPLES_PER_FRAME
            /\ Len(buffer') <= Len(buffer) + 5 * MAX_SAMPLES_PER_FRAME]_vars

\* the ring buffer one byte below the ceiling
C17_Witness ==
    /\ pc = "decode"
    /\ bytes_read = Some(REFILL_LEN)
    /\ Len(buffer) = 13 * MAX_SAMPLES_PER_FRAME - 1

\* C19: over a finite source and a codec that consumes no more than it was
\* offered, every next_frame call returns; the loop does not spin when the
\* codec reports insufficient data on a ring buffer at or above the refill
\* trigger.
C19_NextFrameTerminates ==
    (pc \in {"top", "decode"}) ~> (pc = "idle")

====
